---- MODULE Spec2Model ----
(***************************************************************************)
(* Model of chrono_chat/core.py: the Message record and the MemCore        *)
(* conversation store (bounded history, role registry, API export).        *)
(*                                                                         *)
(* Every method of MemCore is an operator that maps the store's fields and *)
(* the call's arguments to the outcome of the call (the exception it       *)
(* raises, or "ok") and the fields afterwards; every action applies one    *)
(* such operator to the state.  The metadata fields agent_id, agent_name,  *)
(* model and vendor are passed through positionally without being read     *)
(* and are left out of the Message record.                                 *)
(***************************************************************************)
EXTENDS Integers, Sequences, FiniteSets, TLC

VARIABLES
    messages,          \* self.messages: sequence of Message records
    _roles,            \* self._roles: the allowed-role set
    max_history_size,  \* self.max_history_size
    op,                \* name of the last method called ("init" after construction)
    err,               \* outcome of the last call: "ok" or the error raised
    ret,               \* return value of the last get_messages_for_api call
    cap,               \* max_messages argument of the last get_messages_for_api call
    last_message,      \* return value of the last get_last_message call (NoMessage: None)
    added,             \* history variable: messages appended since construction or the last reset
    pc,                \* per thread: the statement its call in flight is at ("idle": none)
    lock,              \* self._lock: "free" or the thread that holds it
    loc,               \* per thread: arguments, locals and result of its current / last call
    ghost              \* history variables of the threaded runs

\* the variables of the threads
cvars == <<pc, lock, loc, ghost>>

vars == <<messages, _roles, max_history_size, op, err, ret, cap, last_message, added,
          pc, lock, loc, ghost>>

-----------------------------------------------------------------------------
(* Bounds and input sets *)

MaxHistory == 3     \* largest max_history_size a store is built with
MaxAdds    == 3     \* successful adds followed between two resets
MaxCap     == 3     \* largest max_messages passed to get_messages_for_api
MaxCalls   == 1     \* calls each thread makes in a threaded run
ConcMaxHistory == 2 \* largest max_history_size of a store shared by threads

Threads == {"t1", "t2"}

None == "None"      \* Python's None

\* MemCore._DEFAULT_ROLES
_DEFAULT_ROLES == {"system", "user", "assistant"}

CustomRoles  == {"tool"}
RoleArgs     == _DEFAULT_ROLES \cup CustomRoles
ContentArgs  == {"system", "hi"}
TimestampArgs == {None, "t1"}
SystemMessageArgs == {None, "", "S"}

\* An optional integer argument: << >> when omitted (None), <<k>> when given
NoCap        == << >>
CapArgs      == {NoCap} \cup {<<k>> : k \in -1 .. MaxCap}

\* Message objects a caller can hand to add_message
MessageArgs ==
    [role : RoleArgs, content : {"hi"}, timestamp : {"t1"}]

\* Message objects the threads hand to add_message ("tool" is not registered
\* in the threaded runs)
ConcMessageArgs ==
    [role : {"user", "assistant", "tool"}, content : {"hi"}, timestamp : {"t1"}]

-----------------------------------------------------------------------------
(* Python helpers *)

\* truth value of an optional string
Truthy(v) == v # None /\ v # ""

\* truth value of an optional integer
TruthyInt(c) == c # NoCap /\ c[1] # 0

\* s[i:] for a list s and an integer i
SliceFrom(s, i) ==
    LET n     == Len(s)
        start == IF i < 0 THEN (IF n + i < 0 THEN 0 ELSE n + i)
                          ELSE (IF i > n THEN n ELSE i)
    IN  SubSeq(s, start + 1, n)

-----------------------------------------------------------------------------
(* Message *)

NoMessage == [role |-> None, content |-> None, timestamp |-> None]

\* Message.__init__(content, role, ..., timestamp): the default timestamp
\* expression reads datetime.timezone off the datetime class, which has no
\* such attribute.
Message(content, role, timestamp) ==
    IF Truthy(timestamp)
    THEN [err |-> "ok",
          msg |-> [role |-> role, content |-> content, timestamp |-> timestamp]]
    ELSE [err |-> "AttributeError", msg |-> NoMessage]

-----------------------------------------------------------------------------
(* MemCore methods: outcome and fields after the call *)

\* add_message with the capacity test written > instead of >=
add_message_no_evict(msgs, roles, mhs, message) ==
    IF message.role \notin roles
    THEN [err |-> "InvalidRole", messages |-> msgs]
    ELSE IF Len(msgs) > mhs
         THEN [err |-> "ok", messages |-> Append(Tail(msgs), message)]
         ELSE [err |-> "ok", messages |-> Append(msgs, message)]

\* add_message evicting with pop() (the newest message) instead of pop(0)
add_message_pop_last(msgs, roles, mhs, message) ==
    IF message.role \notin roles
    THEN [err |-> "InvalidRole", messages |-> msgs]
    ELSE IF Len(msgs) >= mhs
         THEN IF msgs = << >>
              THEN [err |-> "IndexError", messages |-> msgs]
              ELSE [err |-> "ok",
                    messages |-> Append(SubSeq(msgs, 1, Len(msgs) - 1), message)]
         ELSE [err |-> "ok", messages |-> Append(msgs, message)]

\* add_message testing the role against _DEFAULT_ROLES instead of self._roles
add_message_default_roles(msgs, roles, mhs, message) ==
    IF message.role \notin _DEFAULT_ROLES
    THEN [err |-> "InvalidRole", messages |-> msgs]
    ELSE IF Len(msgs) >= mhs
         THEN IF msgs = << >>
              THEN [err |-> "IndexError", messages |-> msgs]
              ELSE [err |-> "ok", messages |-> Append(Tail(msgs), message)]
         ELSE [err |-> "ok", messages |-> Append(msgs, message)]

\* add_message sparing a system message at index 0: it evicts index 1 instead
\* (nothing when the system message is the only one)
add_message_keep_system(msgs, roles, mhs, message) ==
    IF message.role \notin roles
    THEN [err |-> "InvalidRole", messages |-> msgs]
    ELSE IF Len(msgs) >= mhs
         THEN IF msgs = << >>
              THEN [err |-> "IndexError", messages |-> msgs]
              ELSE IF msgs[1].role = "system"
                   THEN [err |-> "ok",
                         messages |-> Append(<<msgs[1]>> \o SubSeq(msgs, 3, Len(msgs)),
                                             message)]
                   ELSE [err |-> "ok", messages |-> Append(Tail(msgs), message)]
         ELSE [err |-> "ok", messages |-> Append(msgs, message)]

\* MemCore.add_message
add_message(msgs, roles, mhs, message) ==
    IF message.role \notin roles
    THEN [err |-> "InvalidRole", messages |-> msgs]
    ELSE IF Len(msgs) >= mhs
         THEN IF msgs = << >>
              THEN [err |-> "IndexError", messages |-> msgs]
              ELSE [err |-> "ok", messages |-> Append(Tail(msgs), message)]
         ELSE [err |-> "ok", messages |-> Append(msgs, message)]

\* MemCore._add_message: builds Message(role, content, ...) positionally,
\* so the role argument lands in the content parameter and vice versa.
_add_message(msgs, roles, mhs, role, content, timestamp) ==
    LET m == Message(role, content, timestamp)
    IN  IF m.err # "ok"
        THEN [err |-> m.err, messages |-> msgs]
        ELSE add_message(msgs, roles, mhs, m.msg)

\* MemCore.add_user_message
add_user_message(msgs, roles, mhs, content, timestamp) ==
    _add_message(msgs, roles, mhs, "user", content, timestamp)

\* MemCore.add_assistant_message
add_assistant_message(msgs, roles, mhs, content, timestamp) ==
    _add_message(msgs, roles, mhs, "assistant", content, timestamp)

\* add_custom_message without its registration test
add_custom_message_unchecked(msgs, roles, mhs, role, content, timestamp) ==
    _add_message(msgs, roles, mhs, role, content, timestamp)

\* MemCore.add_custom_message
add_custom_message(msgs, roles, mhs, role, content, timestamp) ==
    IF role \notin roles
    THEN [err |-> "RoleNotRegistered", messages |-> msgs]
    ELSE _add_message(msgs, roles, mhs, role, content, timestamp)

\* register_role without its default-role test
register_role_unchecked(roles, role) ==
    [err |-> "ok", roles |-> roles \cup {role}]

\* register_role assigning self._roles = {role} instead of adding to it
register_role_assign(roles, role) ==
    IF role \in _DEFAULT_ROLES
    THEN [err |-> "InvalidOperation", roles |-> roles]
    ELSE [err |-> "ok", roles |-> {role}]

\* MemCore.register_role
register_role(roles, role) ==
    IF role \in _DEFAULT_ROLES
    THEN [err |-> "InvalidOperation", roles |-> roles]
    ELSE [err |-> "ok", roles |-> roles \cup {role}]

\* MemCore.reset
reset(msgs, roles, mhs, system_message) ==
    IF Truthy(system_message)
    THEN _add_message(<< >>, roles, mhs, "system", system_message, None)
    ELSE [err |-> "ok", messages |-> << >>]

\* MemCore.__init__
MemCoreInit(system_message, mhs) ==
    LET r == IF Truthy(system_message)
             THEN _add_message(<< >>, _DEFAULT_ROLES, mhs, "system", system_message, None)
             ELSE [err |-> "ok", messages |-> << >>]
    IN  [err |-> r.err, messages |-> r.messages, roles |-> _DEFAULT_ROLES,
         max_history_size |-> mhs]

\* get_last_message returning self.messages[0] instead of self.messages[-1]
get_last_message_first(msgs) ==
    IF msgs # << >> THEN msgs[1] ELSE NoMessage

\* MemCore.get_last_message
get_last_message(msgs) ==
    IF msgs # << >> THEN msgs[Len(msgs)] ELSE NoMessage

\* the loop of get_messages_for_api without the normalisation of roles
RECURSIVE ApiScan_keep_roles(_, _, _, _)
ApiScan_keep_roles(msgs, i, api_messages, system_message) ==
    IF i > Len(msgs)
    THEN [api_messages |-> api_messages, system_message |-> system_message]
    ELSE LET message == msgs[i]
             role    == message.role
             sys2    == IF role = "system" /\ system_message = NoMessage
                        THEN message ELSE system_message
             api2    == IF role # "system"
                        THEN Append(api_messages,
                                    [role |-> role, content |-> message.content])
                        ELSE api_messages
         IN  ApiScan_keep_roles(msgs, i + 1, api2, sys2)

\* MemCore.get_messages_for_api, the loop over self.messages: the state of
\* the loop is the list built so far and the remembered system message
\* (NoMessage while none is remembered).
RECURSIVE ApiScan(_, _, _, _)
ApiScan(msgs, i, api_messages, system_message) ==
    IF i > Len(msgs)
    THEN [api_messages |-> api_messages, system_message |-> system_message]
    ELSE LET message == msgs[i]
             role    == IF message.role \in {"system", "assistant"}
                        THEN message.role ELSE "user"
             sys2    == IF role = "system" /\ system_message = NoMessage
                        THEN message ELSE system_message
             api2    == IF role # "system"
                        THEN Append(api_messages,
                                    [role |-> role, content |-> message.content])
                        ELSE api_messages
         IN  ApiScan(msgs, i + 1, api2, sys2)

\* get_messages_for_api truncating to the first max_messages entries
\* (api_messages[:max_messages]) instead of the last
get_messages_for_api_head(msgs, max_messages) ==
    LET scan    == ApiScan(msgs, 1, << >>, NoMessage)
        api     == scan.api_messages
        capped  == IF TruthyInt(max_messages) /\ Len(api) > max_messages[1]
                   THEN SubSeq(api, 1, max_messages[1])
                   ELSE api
        hasSys  == \E j \in 1 .. Len(capped) : capped[j].role = "system"
    IN  IF scan.system_message # NoMessage /\ ~hasSys
        THEN <<[role |-> "system", content |-> scan.system_message.content]>> \o capped
        ELSE capped

\* MemCore.get_messages_for_api
get_messages_for_api(msgs, max_messages) ==
    LET scan    == ApiScan(msgs, 1, << >>, NoMessage)
        api     == scan.api_messages
        capped  == IF TruthyInt(max_messages) /\ Len(api) > max_messages[1]
                   THEN SliceFrom(api, 0 - max_messages[1])
                   ELSE api
        hasSys  == \E j \in 1 .. Len(capped) : capped[j].role = "system"
    IN  IF scan.system_message # NoMessage /\ ~hasSys
        THEN <<[role |-> "system", content |-> scan.system_message.content]>> \o capped
        ELSE capped

-----------------------------------------------------------------------------
(* Threads: the locals of a call and the statement-level pieces of the      *)
(* methods.  A statement's read of self.messages and the list operation on *)
(* it are one step (the list read is the list operated on); the steps of   *)
(* different threads interleave freely between statements.                  *)

\* the locals of a thread that has made no call yet
LocInit ==
    [call     |-> "none",      \* method of the current / last call
     msg      |-> NoMessage,   \* add_message: the message argument
     err      |-> "ok",        \* error the call raised ("ok": none)
     n        |-> 0,           \* calls made so far
     msgs_val |-> << >>,       \* get_messages: the value returned
     last_val |-> NoMessage,   \* get_last_message: the value returned
     api_val  |-> << >>,       \* get_messages_for_api: the value returned
     it_own   |-> FALSE,       \* the for loop's list is no longer self.messages
     it_list  |-> << >>,       \*   and is this list instead
     it_i     |-> 0,           \* index of the for loop's list iterator
     api      |-> << >>,       \* get_messages_for_api: api_messages
     sys      |-> NoMessage]   \* get_messages_for_api: system_message

\* history variables of a threaded run that starts with history h
GhostInit(h) ==
    [init   |-> h,                                        \* history at the start
     held   |-> {SubSeq(h, 1, k) : k \in 0 .. Len(h)},    \* histories held after a completed operation
     tlog   |-> [t \in Threads |-> << >>],                \* per thread: messages it appended
     resets |-> 0]                                        \* resets made

\* threading.Lock.acquire as entered by `with self._lock`: it returns when
\* the lock is free
lock_unchecked(lk) == TRUE

can_acquire(lk) == lk = "free"

\* the lock after `with self._lock` is left only on the normal path
with_exit_leak(lk, e) == IF e = "ok" THEN "free" ELSE lk

\* the lock after the `with self._lock` block is left, normally or by an
\* exception e
with_exit(lk, e) == "free"

\* one iteration of the loop of get_messages_for_api
ApiStep(message, api_messages, system_message) ==
    LET role == IF message.role \in {"system", "assistant"}
                THEN message.role ELSE "user"
    IN  [sys |-> IF role = "system" /\ system_message = NoMessage
                 THEN message ELSE system_message,
         api |-> IF role # "system"
                 THEN Append(api_messages,
                             [role |-> role, content |-> message.content])
                 ELSE api_messages]

\* get_messages_for_api after its loop
ApiFinish(api_messages, system_message, max_messages) ==
    LET capped == IF TruthyInt(max_messages) /\ Len(api_messages) > max_messages[1]
                  THEN SliceFrom(api_messages, 0 - max_messages[1])
                  ELSE api_messages
        hasSys == \E j \in 1 .. Len(capped) : capped[j].role = "system"
    IN  IF system_message # NoMessage /\ ~hasSys
        THEN <<[role |-> "system", content |-> system_message.content]>> \o capped
        ELSE capped

-----------------------------------------------------------------------------
(* State machine *)

Init ==
    \E system_message \in SystemMessageArgs, mhs \in 1 .. MaxHistory :
        LET c == MemCoreInit(system_message, mhs)
        IN  /\ c.err = "ok"
            /\ messages = c.messages
            /\ _roles = c.roles
            /\ max_history_size = c.max_history_size
            /\ op = "init"
            /\ err = "ok"
            /\ ret = << >>
            /\ cap = NoCap
            /\ last_message = NoMessage
            /\ added = c.messages
            /\ pc = [t \in Threads |-> "idle"]
            /\ lock = "free"
            /\ loc = [t \in Threads |-> LocInit]
            /\ ghost = GhostInit(c.messages)

\* the effect of a call that adds: r is the outcome record of the method and
\* message the Message object that reached add_message
Added(name, r, message) ==
    /\ Len(added) < MaxAdds
    /\ messages' = r.messages
    /\ op' = name
    /\ err' = r.err
    /\ added' = IF r.err = "ok" THEN Append(added, message) ELSE added
    /\ ret' = << >>
    /\ cap' = NoCap
    /\ last_message' = NoMessage
    /\ UNCHANGED <<_roles, max_history_size>>
    /\ UNCHANGED cvars

AddMessage(message) ==
    Added("add_message", add_message(messages, _roles, max_history_size, message),
          message)

AddUserMessage(content, timestamp) ==
    Added("add_user_message",
          add_user_message(messages, _roles, max_history_size, content, timestamp),
          Message("user", content, timestamp).msg)

AddAssistantMessage(content, timestamp) ==
    Added("add_assistant_message",
          add_assistant_message(messages, _roles, max_history_size, content, timestamp),
          Message("assistant", content, timestamp).msg)

AddCustomMessage(role, content, timestamp) ==
    Added("add_custom_message",
          add_custom_message(messages, _roles, max_history_size, role, content, timestamp),
          Message(role, content, timestamp).msg)

RegisterRole(role) ==
    LET r == register_role(_roles, role)
    IN  /\ _roles' = r.roles
        /\ op' = "register_role"
        /\ err' = r.err
        /\ ret' = << >>
        /\ cap' = NoCap
        /\ last_message' = NoMessage
        /\ UNCHANGED <<messages, max_history_size, added>>
        /\ UNCHANGED cvars

Reset(system_message) ==
    LET r == reset(messages, _roles, max_history_size, system_message)
    IN  /\ messages' = r.messages
        /\ added' = r.messages
        /\ op' = "reset"
        /\ err' = r.err
        /\ ret' = << >>
        /\ cap' = NoCap
        /\ last_message' = NoMessage
        /\ UNCHANGED <<_roles, max_history_size>>
        /\ UNCHANGED cvars

GetMessagesForApi(max_messages) ==
    /\ ret' = get_messages_for_api(messages, max_messages)
    /\ cap' = max_messages
    /\ op' = "get_messages_for_api"
    /\ err' = "ok"
    /\ last_message' = NoMessage
    /\ UNCHANGED <<messages, _roles, max_history_size, added>>
    /\ UNCHANGED cvars

GetLastMessage ==
    /\ last_message' = get_last_message(messages)
    /\ op' = "get_last_message"
    /\ err' = "ok"
    /\ ret' = << >>
    /\ cap' = NoCap
    /\ UNCHANGED <<messages, _roles, max_history_size, added>>
    /\ UNCHANGED cvars

Next ==
    \/ \E message \in MessageArgs : AddMessage(message)
    \/ \E content \in ContentArgs, timestamp \in TimestampArgs :
          AddUserMessage(content, timestamp)
    \/ \E content \in ContentArgs, timestamp \in TimestampArgs :
          AddAssistantMessage(content, timestamp)
    \/ \E role \in RoleArgs, content \in ContentArgs, timestamp \in TimestampArgs :
          AddCustomMessage(role, content, timestamp)
    \/ \E role \in RoleArgs : RegisterRole(role)
    \/ \E system_message \in SystemMessageArgs : Reset(system_message)
    \/ \E max_messages \in CapArgs : GetMessagesForApi(max_messages)
    \/ GetLastMessage

Spec == Init /\ [][Next]_vars

-----------------------------------------------------------------------------
(* Threaded runs: the threads of Threads call add_message, reset and the    *)
(* read methods on one store, each call advancing statement by statement.   *)

\* the variables only the single-caller runs use
svars == <<op, err, ret, cap, last_message>>

\* the sequences over S of length at most n
BoundedSeqs(S, n) == UNION {[1 .. k -> S] : k \in 0 .. n}

\* a store that single-caller add_message calls have filled with h
ConcInit ==
    \E mhs \in 1 .. ConcMaxHistory :
      \E h \in BoundedSeqs({m \in ConcMessageArgs : m.role \in _DEFAULT_ROLES}, mhs) :
        /\ messages = h
        /\ _roles = _DEFAULT_ROLES
        /\ max_history_size = mhs
        /\ op = "init"
        /\ err = "ok"
        /\ ret = << >>
        /\ cap = NoCap
        /\ last_message = NoMessage
        /\ added = h
        /\ pc = [t \in Threads |-> "idle"]
        /\ lock = "free"
        /\ loc = [t \in Threads |-> LocInit]
        /\ ghost = GhostInit(h)

\* thread t may make a call
CanCall(t) == pc[t] = "idle" /\ loc[t].n < MaxCalls

\* the locals of t at the start of a call of method name
NewCall(t, name) == [LocInit EXCEPT !.call = name, !.n = loc[t].n + 1]

\* add_message(message), line 45-46: the role test
CallAddMessage(t, message) ==
    /\ CanCall(t)
    /\ IF message.role \notin _roles
       THEN /\ loc' = [loc EXCEPT ![t] = [NewCall(t, "add_message") EXCEPT
                                            !.msg = message, !.err = "InvalidRole"]]
            /\ pc' = pc
       ELSE /\ loc' = [loc EXCEPT ![t] = [NewCall(t, "add_message") EXCEPT
                                            !.msg = message]]
            /\ pc' = [pc EXCEPT ![t] = "add_lock"]
    /\ UNCHANGED <<messages, _roles, max_history_size, added, lock, ghost>>
    /\ UNCHANGED svars

\* add_message, line 48: with self._lock
AddAcquire(t) ==
    /\ pc[t] = "add_lock"
    /\ can_acquire(lock)
    /\ lock' = t
    /\ pc' = [pc EXCEPT ![t] = "add_len"]
    /\ UNCHANGED <<messages, _roles, max_history_size, added, loc, ghost>>
    /\ UNCHANGED svars

\* add_message, line 49: if len(self.messages) >= self.max_history_size
AddLen(t) ==
    /\ pc[t] = "add_len"
    /\ pc' = [pc EXCEPT ![t] = IF Len(messages) >= max_history_size
                                THEN "add_pop" ELSE "add_append"]
    /\ UNCHANGED <<messages, _roles, max_history_size, added, lock, loc, ghost>>
    /\ UNCHANGED svars

\* add_message, line 50: self.messages.pop(0)
AddPop(t) ==
    /\ pc[t] = "add_pop"
    /\ IF messages = << >>
       THEN /\ loc' = [loc EXCEPT ![t].err = "IndexError"]
            /\ pc' = [pc EXCEPT ![t] = "add_exit"]
            /\ messages' = messages
       ELSE /\ messages' = Tail(messages)
            /\ pc' = [pc EXCEPT ![t] = "add_append"]
            /\ loc' = loc
    /\ UNCHANGED <<_roles, max_history_size, added, lock, ghost>>
    /\ UNCHANGED svars

\* add_message, line 52: self.messages.append(message)
AddAppend(t) ==
    /\ pc[t] = "add_append"
    /\ messages' = Append(messages, loc[t].msg)
    /\ added' = Append(added, loc[t].msg)
    /\ ghost' = [ghost EXCEPT !.held = @ \cup {messages'},
                              !.tlog[t] = Append(@, loc[t].msg)]
    /\ pc' = [pc EXCEPT ![t] = "add_exit"]
    /\ UNCHANGED <<_roles, max_history_size, lock, loc>>
    /\ UNCHANGED svars

\* add_message, line 48: the with block is left, the call returns or raises
AddExit(t) ==
    /\ pc[t] = "add_exit"
    /\ lock' = with_exit(lock, loc[t].err)
    /\ pc' = [pc EXCEPT ![t] = "idle"]
    /\ UNCHANGED <<messages, _roles, max_history_size, added, loc, ghost>>
    /\ UNCHANGED svars

\* reset(), line 125: self.messages = [] (no system_message: nothing else).
\* A for loop that iterates the replaced list keeps that list.
CallReset(t) ==
    /\ CanCall(t)
    /\ messages' = << >>
    /\ added' = << >>
    /\ ghost' = [ghost EXCEPT !.held = @ \cup {<< >>}, !.resets = @ + 1]
    /\ loc' = [u \in Threads |->
                 IF u = t THEN NewCall(t, "reset")
                 ELSE IF pc[u] = "api_loop" /\ ~loc[u].it_own
                      THEN [loc[u] EXCEPT !.it_own = TRUE, !.it_list = messages]
                      ELSE loc[u]]
    /\ UNCHANGED <<_roles, max_history_size, pc, lock>>
    /\ UNCHANGED svars

\* get_messages(), line 80: return self.messages
CallGetMessages(t) ==
    /\ CanCall(t)
    /\ loc' = [loc EXCEPT ![t] = [NewCall(t, "get_messages") EXCEPT
                                    !.msgs_val = messages]]
    /\ UNCHANGED <<messages, _roles, max_history_size, added, pc, lock, ghost>>
    /\ UNCHANGED svars

\* get_last_message(), line 76: the test `if self.messages`
CallGetLastMessage(t) ==
    /\ CanCall(t)
    /\ loc' = [loc EXCEPT ![t] = NewCall(t, "get_last_message")]
    /\ pc' = [pc EXCEPT ![t] = IF messages # << >> THEN "glm_index" ELSE "idle"]
    /\ UNCHANGED <<messages, _roles, max_history_size, added, lock, ghost>>
    /\ UNCHANGED svars

\* get_last_message, line 76: self.messages[-1]
GetLastIndex(t) ==
    /\ pc[t] = "glm_index"
    /\ loc' = IF messages = << >>
              THEN [loc EXCEPT ![t].err = "IndexError"]
              ELSE [loc EXCEPT ![t].last_val = messages[Len(messages)]]
    /\ pc' = [pc EXCEPT ![t] = "idle"]
    /\ UNCHANGED <<messages, _roles, max_history_size, added, lock, ghost>>
    /\ UNCHANGED svars

\* get_messages_for_api(), lines 89-92: the locals and the loop's iterator
CallGetMessagesForApi(t) ==
    /\ CanCall(t)
    /\ loc' = [loc EXCEPT ![t] = NewCall(t, "get_messages_for_api")]
    /\ pc' = [pc EXCEPT ![t] = "api_loop"]
    /\ UNCHANGED <<messages, _roles, max_history_size, added, lock, ghost>>
    /\ UNCHANGED svars

\* get_messages_for_api, lines 92-121: the list iterator yields the element
\* at its index while the index is below the list's current length, and the
\* body runs; otherwise the loop ends and the result is built
ApiLoop(t) ==
    /\ pc[t] = "api_loop"
    /\ LET list == IF loc[t].it_own THEN loc[t].it_list ELSE messages
       IN  IF loc[t].it_i < Len(list)
           THEN LET b == ApiStep(list[loc[t].it_i + 1], loc[t].api, loc[t].sys)
                IN  /\ loc' = [loc EXCEPT ![t].it_i = @ + 1,
                                          ![t].api = b.api,
                                          ![t].sys = b.sys]
                    /\ pc' = pc
           ELSE /\ loc' = [loc EXCEPT ![t] =
                              [LocInit EXCEPT
                                 !.call = "get_messages_for_api",
                                 !.n = loc[t].n,
                                 !.api_val = ApiFinish(loc[t].api, loc[t].sys, NoCap)]]
                /\ pc' = [pc EXCEPT ![t] = "idle"]
    /\ UNCHANGED <<messages, _roles, max_history_size, added, lock, ghost>>
    /\ UNCHANGED svars

\* a step of the call thread t has in flight
ThreadStep(t) ==
    \/ AddAcquire(t)
    \/ AddLen(t)
    \/ AddPop(t)
    \/ AddAppend(t)
    \/ AddExit(t)
    \/ GetLastIndex(t)
    \/ ApiLoop(t)

ConcNext ==
    \/ \E t \in Threads, message \in ConcMessageArgs : CallAddMessage(t, message)
    \/ \E t \in Threads : CallReset(t)
    \/ \E t \in Threads : CallGetMessages(t)
    \/ \E t \in Threads : CallGetLastMessage(t)
    \/ \E t \in Threads : CallGetMessagesForApi(t)
    \/ \E t \in Threads : AddAcquire(t)
    \/ \E t \in Threads : AddLen(t)
    \/ \E t \in Threads : AddPop(t)
    \/ \E t \in Threads : AddAppend(t)
    \/ \E t \in Threads : AddExit(t)
    \/ \E t \in Threads : GetLastIndex(t)
    \/ \E t \in Threads : ApiLoop(t)

SpecConc == ConcInit /\ [][ConcNext]_vars

\* the threads are scheduled fairly: a call in flight whose next statement
\* can run does run
SpecConcFair == SpecConc /\ \A t \in Threads : WF_vars(ThreadStep(t))

-----------------------------------------------------------------------------
(* Properties *)

Min(a, b) == IF a < b THEN a ELSE b

\* the last n elements of s
LastN(s, n) == SubSeq(s, Len(s) - n + 1, Len(s))

\* the last element of a non-empty sequence
Last(s) == s[Len(s)]

AddOps == {"add_message", "add_user_message", "add_assistant_message",
           "add_custom_message"}

\* C1: with a positive max_history_size the history never holds more than
\* max_history_size messages, whatever calls were made.
C1_SizeBound == Len(messages) <= max_history_size

\* an add has just succeeded on a store that was already at capacity
C1_Witness ==
    /\ op \in AddOps /\ err = "ok"
    /\ Len(added) > max_history_size
    /\ Len(messages) = max_history_size

\* C2: once more messages have been added than max_history_size, the history
\* has exactly max_history_size messages and they are the last
\* max_history_size messages added, in the order they were added.
C2_FifoEviction ==
    Len(added) > max_history_size =>
        /\ Len(messages) = max_history_size
        /\ messages = LastN(added, max_history_size)

\* two messages were evicted from a store of capacity 1, and the middle one
\* differs from the survivor
C2_Witness ==
    /\ max_history_size = 1 /\ Len(added) = 3
    /\ added[2] # added[3] /\ added[1] # added[2]
    /\ messages = <<added[3]>>

\* C3: add_message(m) raises the invalid-role error exactly when m.role is
\* not an allowed role, and then leaves messages alone; otherwise it succeeds
\* and m is the last message afterwards.
C3_AddMessageRoleCheck ==
    [][\A m \in MessageArgs :
          AddMessage(m) =>
              IF m.role \notin _roles
              THEN err' = "InvalidRole" /\ messages' = messages
              ELSE err' = "ok" /\ messages' # << >> /\ Last(messages') = m]_vars

\* add_message has just refused a message on a non-empty store
C3_Witness ==
    op = "add_message" /\ err = "InvalidRole" /\ messages # << >>

\* C4: add_user_message and add_assistant_message succeed for every content,
\* with or without a timestamp, and append a message with role "user" /
\* "assistant" and the given content.
C4_WrappersSucceed ==
    [][\A content \in ContentArgs, timestamp \in TimestampArgs :
          /\ AddUserMessage(content, timestamp) =>
                /\ err' = "ok" /\ messages' # << >>
                /\ Last(messages').role = "user"
                /\ Last(messages').content = content
          /\ AddAssistantMessage(content, timestamp) =>
                /\ err' = "ok" /\ messages' # << >>
                /\ Last(messages').role = "assistant"
                /\ Last(messages').content = content]_vars

\* C5: once a custom role r is registered, add_custom_message(r, content)
\* succeeds for every content and appends a message with role r and that
\* content.
C5_CustomAddSucceeds ==
    [][\A role \in CustomRoles, content \in ContentArgs, timestamp \in TimestampArgs :
          (role \in _roles /\ AddCustomMessage(role, content, timestamp)) =>
              /\ err' = "ok" /\ messages' # << >>
              /\ Last(messages').role = role
              /\ Last(messages').content = content]_vars

\* C6: register_role of "system", "user" or "assistant" raises the
\* invalid-operation error in every state and changes neither the allowed
\* roles nor the messages.
C6_RegisterDefaultFails ==
    [][\A role \in _DEFAULT_ROLES :
          RegisterRole(role) =>
              err' = "InvalidOperation" /\ _roles' = _roles /\ messages' = messages]_vars

\* register_role has just refused a default role on a store that holds
\* messages and a registered custom role
C6_Witness ==
    /\ op = "register_role" /\ err = "InvalidOperation"
    /\ messages # << >> /\ _roles # _DEFAULT_ROLES

\* C7: add_custom_message with a role that is not allowed raises the
\* role-not-registered error for every content and leaves messages alone.
C7_UnregisteredCustomFails ==
    [][\A role \in RoleArgs, content \in ContentArgs, timestamp \in TimestampArgs :
          (role \notin _roles /\ AddCustomMessage(role, content, timestamp)) =>
              err' = "RoleNotRegistered" /\ messages' = messages]_vars

\* add_custom_message has just refused an unregistered role on a non-empty store
C7_Witness ==
    /\ op = "add_custom_message" /\ err = "RoleNotRegistered"
    /\ messages # << >>

IsSystem(m)    == m.role = "system"
IsNonSystem(m) == m.role # "system"

\* the exported entry of a non-system message
ApiEntry(m) ==
    [role |-> IF m.role = "assistant" THEN "assistant" ELSE "user",
     content |-> m.content]

\* the exported non-system entries of a history, in insertion order
NonSystemEntries(msgs) ==
    LET ns == SelectSeq(msgs, IsNonSystem)
    IN  [i \in 1 .. Len(ns) |-> ApiEntry(ns[i])]

\* the system entry of a history: the first stored system message, if any
SystemEntries(msgs) ==
    LET sys == SelectSeq(msgs, IsSystem)
    IN  IF sys = << >> THEN << >>
        ELSE <<[role |-> "system", content |-> sys[1].content]>>

\* C8: without a cap, get_messages_for_api returns the content of the first
\* stored system message as one system entry at the front (none when no
\* system message is stored), then one entry per non-system message in
\* insertion order, "assistant" kept and every other role exported as "user".
C8_ApiExportNoCap ==
    (op = "get_messages_for_api" /\ cap = NoCap) =>
        ret = SystemEntries(messages) \o NonSystemEntries(messages)

\* an export without cap of a history whose system message is not stored
\* first and that holds a message of a custom role
C8_Witness ==
    /\ op = "get_messages_for_api" /\ cap = NoCap
    /\ Len(messages) = 3
    /\ messages[1].role \in CustomRoles
    /\ messages[2].role = "system" /\ messages[3].role = "system"
    /\ messages[2].content # messages[3].content
    /\ Len(ret) = 2

C10_AtMostCapInTotal ==
    (op = "get_messages_for_api" /\ cap # NoCap) =>
        (cap[1] >= 1 =>
            /\ Len(ret) <= cap[1]
            /\ (\E i \in 1 .. Len(messages) : IsSystem(messages[i]))
                  => \E j \in 1 .. Len(ret) : ret[j].role = "system")

\* C11: reset(s) with a non-empty string s on a non-empty store completes
\* without error and leaves exactly one message, with role "system" and
\* content s; reset() without argument leaves messages empty.
C11_ResetReseeds ==
    [][\A system_message \in SystemMessageArgs :
          Reset(system_message) =>
              IF Truthy(system_message)
              THEN messages # << >> =>
                     /\ err' = "ok"
                     /\ Len(messages') = 1
                     /\ messages'[1].role = "system"
                     /\ messages'[1].content = system_message
              ELSE err' = "ok" /\ messages' = << >>]_vars

\* C12: a call that ends by raising an error leaves messages and the
\* allowed-role set exactly as they were before the call.
C12_NoPartialMutation ==
    [][err' # "ok" => (messages' = messages /\ _roles' = _roles)]_vars

\* thread t is inside the with block of add_message
InSection(t) == pc[t] \in {"add_len", "add_pop", "add_append", "add_exit"}

\* every thread has returned from its calls
AllIdle == \A t \in Threads : pc[t] = "idle"

\* the orders in which the calls logged in f (per thread, in program order)
\* can run one after another
RECURSIVE AllMerges(_)
AllMerges(f) ==
    IF \A t \in Threads : f[t] = << >>
    THEN {<< >>}
    ELSE UNION {{<<Head(f[t])>> \o r : r \in AllMerges([f EXCEPT ![t] = Tail(f[t])])} :
                  t \in {u \in Threads : f[u] # << >>}}

\* the history after add_message is called with the messages of order, one
\* call after another, on a store holding h
RECURSIVE SeqRun(_, _)
SeqRun(h, order) ==
    IF order = << >> THEN h
    ELSE SeqRun(add_message(h, _roles, max_history_size, Head(order)).messages,
                Tail(order))

\* C13: concurrent add_message calls are serialized by the lock: no two
\* threads are inside the check-evict-append section at once, messages never
\* holds more than max_history_size entries in any intermediate state, and
\* once the calls have returned (no reset having run) the history is the one
\* that running the same adds one after another in some order produces.
C13_AddsSerialized ==
    /\ \A t1, t2 \in Threads : (t1 # t2) => ~(InSection(t1) /\ InSection(t2))
    /\ Len(messages) <= max_history_size
    /\ (AllIdle /\ ghost.resets = 0) =>
          messages \in {SeqRun(ghost.init, o) : o \in AllMerges(ghost.tlog)}

\* two threads have each added a message, different ones, to a store that
\* was full, and both calls have returned
C13_Witness ==
    /\ AllIdle /\ ghost.resets = 0
    /\ Len(ghost.init) = max_history_size
    /\ \A t \in Threads : Len(ghost.tlog[t]) = 1
    /\ ghost.tlog["t1"] # ghost.tlog["t2"]

\* C17: while adds are in flight (and no reset runs), every value a read
\* returns is that of a history the store held before or after a completed
\* operation, and no read raises.
C17_ReadsSeeHeldHistories ==
    \A t \in Threads :
        (pc[t] = "idle" /\ ghost.resets = 0) =>
            /\ loc[t].call = "get_messages" => loc[t].msgs_val \in ghost.held
            /\ loc[t].call = "get_last_message" =>
                  /\ loc[t].err = "ok"
                  /\ \E h \in ghost.held : loc[t].last_val = get_last_message(h)
            /\ loc[t].call = "get_messages_for_api" =>
                  \E h \in ghost.held : loc[t].api_val = get_messages_for_api(h, NoCap)

\* C18: an add_message with an allowed role that runs concurrently with a
\* reset() never raises, and after one such add and one reset the history is
\* that of add-then-reset (empty) or reset-then-add (the one message).
C18_AddVersusReset ==
    /\ \A t \in Threads :
          (/\ pc[t] = "idle" /\ loc[t].call = "add_message"
           /\ loc[t].msg.role \in _roles)
          => loc[t].err = "ok"
    /\ \A a, r \in Threads :
          (/\ AllIdle
           /\ loc[a].call = "add_message" /\ loc[a].n = 1
           /\ loc[a].msg.role \in _roles
           /\ loc[r].call = "reset" /\ loc[r].n = 1)
          => messages \in {<< >>, <<loc[a].msg>>}

\* C19: the lock is held exactly by a thread inside the with block of
\* add_message, whichever way the block is left; and under fair scheduling
\* every add_message call that has started returns.
C19_LockReleased ==
    /\ [](\A t \in Threads : (lock = t) <=> InSection(t))
    /\ \A t \in Threads :
          (pc[t] \in {"add_lock", "add_len", "add_pop", "add_append", "add_exit"})
             ~> (pc[t] = "idle")

\* an add_message has left the with block by an exception (pop on a list a
\* reset emptied) and the lock is free again
C19_Witness ==
    \E t \in Threads :
        /\ pc[t] = "idle" /\ loc[t].call = "add_message"
        /\ loc[t].err = "IndexError"
        /\ lock = "free"

\* C14: get_last_message never raises; it returns None when messages is
\* empty and otherwise the most recently appended message.
C14_GetLastMessage ==
    op = "get_last_message" =>
        /\ err = "ok"
        /\ messages = << >> => last_message = NoMessage
        /\ messages # << >> => (added # << >> /\ last_message = Last(added))

\* get_last_message has just answered on a store that has evicted a message
\* different from the one returned
C14_Witness ==
    /\ op = "get_last_message"
    /\ Len(added) > max_history_size
    /\ max_history_size >= 2
    /\ last_message = Last(added)
    /\ last_message # messages[1]

\* C15: max_history_size never changes; the allowed-role set always holds
\* the three default roles, never loses a role and changes only in a
\* successful register_role, which adds exactly the role given.
C15_RegistryFrame ==
    /\ [](_DEFAULT_ROLES \subseteq _roles)
    /\ [][/\ max_history_size' = max_history_size
          /\ _roles \subseteq _roles'
          /\ _roles' # _roles => (op' = "register_role" /\ err' = "ok")
          /\ \A role \in RoleArgs :
                RegisterRole(role) =>
                    IF role \in _DEFAULT_ROLES
                    THEN _roles' = _roles
                    ELSE err' = "ok" /\ _roles' = _roles \cup {role}]_vars

\* register_role has just added a custom role on a store that holds messages
C15_Witness ==
    /\ op = "register_role" /\ err = "ok"
    /\ _roles = _DEFAULT_ROLES \cup {"tool"}
    /\ messages # << >>

\* C16: with max_messages = k >= 0 (k = 0 included) the result of
\* get_messages_for_api holds at most k non-system entries.
C16_CapBoundsNonSystem ==
    (op = "get_messages_for_api" /\ cap # NoCap) =>
        (cap[1] >= 0 => Len(SelectSeq(ret, IsNonSystem)) <= cap[1])

\* C20: a successful add on a store at capacity whose oldest message has role
\* "system" removes that message like any other; and whenever no system
\* message is stored, get_messages_for_api returns no system entry.
C20_SystemEvicted ==
    [][/\ (/\ op' \in AddOps /\ err' = "ok"
           /\ Len(messages) = max_history_size
           /\ IsSystem(messages[1]))
          => (messages' # << >> /\ messages' = Append(Tail(messages), Last(messages')))
       /\ (/\ op' = "get_messages_for_api"
           /\ ~ \E i \in 1 .. Len(messages') : IsSystem(messages'[i]))
          => ~ \E j \in 1 .. Len(ret') : ret'[j].role = "system"]_vars

\* an export after the only system message was evicted by the last add: the
\* result is not empty and has no system entry
C20_Witness ==
    /\ op = "get_messages_for_api"
    /\ Len(added) > max_history_size
    /\ IsSystem(added[Len(added) - max_history_size])
    /\ ~ \E i \in 1 .. Len(messages) : IsSystem(messages[i])
    /\ ret # << >>
    /\ ~ \E j \in 1 .. Len(ret) : ret[j].role = "system"

====
